---- MODULE Spec2Model ----
(***************************************************************************)
(* A model of libcloud/loadbalancer/drivers/dimensiondata.py, the          *)
(* Dimension Data load-balancer driver (class DimensionDataLBDriver).      *)
(*                                                                         *)
(* The driver is a facade over a vendor HTTP API.  The state of the model  *)
(* is the vendor-side inventory (pools, nodes, pool members, virtual       *)
(* listeners), and a record of the last driver operation: its arguments,   *)
(* the vendor calls it issued with their responses, and what it returned   *)
(* or raised.  Every driver method is one action.                          *)
(*                                                                         *)
(* Three names the methods read are bound nowhere in the file: ET (used by *)
(* every request builder), false (balancer_attach_member, line 223) and    *)
(* the bare _ALGORITHM_TO_VALUE_MAP (create_balancer, line 115; the table  *)
(* is a class attribute, reachable only through self).  Python raises      *)
(* NameError when such a name is read.  The variable `patched` is the set  *)
(* of those names that the importing program has bound in the module's     *)
(* namespace: Spec starts with none (the file as written), SpecBound with  *)
(* all three bound to their evident referents (ElementTree, False, the     *)
(* class table), SpecAny with either.                                      *)
(***************************************************************************)
EXTENDS Integers, Sequences, FiniteSets, TLC

VARIABLES vendor, nextId, patched, last, ops

vars == <<vendor, nextId, patched, last, ops>>

(***************************** bounds **************************************)
\* Objects the vendor will create before it refuses further creations.
MaxId == 6
\* Driver operations in one behaviour.
MaxOps == 1
\* Longest member list handed to create_balancer.
MaxMembers == 2

(************************** Python values *********************************)
None == "None"
False == "False"
True == "True"

\* The outcome of a call: the context after it, and a returned value or a
\* raised exception.
Return(ctx, v) == [ctx |-> ctx, value |-> v, exc |-> "none"]
Raise(ctx, e) == [ctx |-> ctx, value |-> None, exc |-> e]

(************************ name resolution *********************************)
\* The names bound at module level: the imports and the class statement.
ModuleGlobals ==
  { "DimensionDataConnection", "DimensionDataPool", "DimensionDataPoolMember",
    "API_ENDPOINTS", "DEFAULT_REGION", "TYPES_URN", "SERVER_NS",
    "find", "reverse_dict", "fixxpath", "findtext", "findall",
    "State", "Algorithm", "Driver", "LoadBalancer", "DEFAULT_ALGORITHM",
    "Member", "Provider", "DimensionDataLBDriver" }

\* The names the methods read that the file binds nowhere.
FreeNames == {"ET", "false", "_ALGORITHM_TO_VALUE_MAP"}

\* A global name lookup inside a method succeeds iff the name is bound.
Bound(n) == n \in ModuleGlobals \cup patched

(************************ enum translation ********************************)
\* libcloud.loadbalancer.base.Algorithm
Algorithm ==
  [ RANDOM |-> 0, ROUND_ROBIN |-> 1, LEAST_CONNECTIONS |-> 2,
    WEIGHTED_ROUND_ROBIN |-> 3, WEIGHTED_LEAST_CONNECTIONS |-> 4,
    SHORTEST_RESPONSE |-> 5, PERSISTENT_IP |-> 6 ]

Algorithms == {Algorithm[k] : k \in DOMAIN Algorithm}

\* libcloud.loadbalancer.types.State
State == [ RUNNING |-> 0, PENDING |-> 1, UNKNOWN |-> 2, ERROR |-> 3, DELETED |-> 4 ]

\* A mutant of the table: a copy-paste slip maps two codes to one algorithm.
VALUE_TO_ALGORITHM_MAP_dup ==
  [ ROUND_ROBIN |-> Algorithm.ROUND_ROBIN,
    LEAST_CONNECTIONS |-> Algorithm.LEAST_CONNECTIONS,
    SHORTEST_RESPONSE |-> Algorithm.SHORTEST_RESPONSE,
    PERSISTENT_IP |-> Algorithm.SHORTEST_RESPONSE ]

VALUE_TO_ALGORITHM_MAP ==
  [ ROUND_ROBIN |-> Algorithm.ROUND_ROBIN,
    LEAST_CONNECTIONS |-> Algorithm.LEAST_CONNECTIONS,
    SHORTEST_RESPONSE |-> Algorithm.SHORTEST_RESPONSE,
    PERSISTENT_IP |-> Algorithm.PERSISTENT_IP ]

\* libcloud.utils.misc.reverse_dict: dict((value, key) for key, value in d.items());
\* of the keys that share a value one survives.
reverse_dict(d) ==
  [ v \in {d[k] : k \in DOMAIN d} |-> CHOOSE k \in DOMAIN d : d[k] = v ]

ALGORITHM_TO_VALUE_MAP == reverse_dict(VALUE_TO_ALGORITHM_MAP)

\* dict.get(key, default)
DictGet(d, k, default) == IF k \in DOMAIN d THEN d[k] ELSE default

\* libcloud.loadbalancer.base.DEFAULT_ALGORITHM
DEFAULT_ALGORITHM == Algorithm.ROUND_ROBIN

\* The lookup create_balancer makes: _ALGORITHM_TO_VALUE_MAP.get(algorithm).
algorithm_to_code(algorithm) == DictGet(ALGORITHM_TO_VALUE_MAP, algorithm, None)

\* The reverse lookup, falling back to the default algorithm.
code_to_algorithm(code) == DictGet(VALUE_TO_ALGORITHM_MAP, code, DEFAULT_ALGORITHM)

\* A mutant of the table: PENDING_DELETE is taken for an error.
VALUE_TO_STATE_MAP_slip ==
  [ NORMAL |-> State.RUNNING,
    PENDING_ADD |-> State.PENDING,
    PENDING_CHANGE |-> State.PENDING,
    PENDING_DELETE |-> State.ERROR,
    FAILED_ADD |-> State.ERROR,
    FAILED_CHANGE |-> State.ERROR,
    FAILED_DELETE |-> State.ERROR,
    REQUIRES_SUPPORT |-> State.ERROR ]

VALUE_TO_STATE_MAP ==
  [ NORMAL |-> State.RUNNING,
    PENDING_ADD |-> State.PENDING,
    PENDING_CHANGE |-> State.PENDING,
    PENDING_DELETE |-> State.PENDING,
    FAILED_ADD |-> State.ERROR,
    FAILED_CHANGE |-> State.ERROR,
    FAILED_DELETE |-> State.ERROR,
    REQUIRES_SUPPORT |-> State.ERROR ]


(************************** text and numbers ******************************)
\* Port texts, as the characters of the XML text node.
Digits == <<"0", "1", "2", "3", "4", "5", "6", "7", "8", "9">>

DigitValue(c) == (CHOOSE i \in 1..10 : Digits[i] = c) - 1

IsDigit(c) == \E i \in 1..10 : Digits[i] = c

RECURSIVE IntOfDigits(_, _)
IntOfDigits(text, acc) ==
  IF text = <<>> THEN acc
  ELSE IntOfDigits(Tail(text), 10 * acc + DigitValue(Head(text)))

\* Python int(text): the decimal value, or ValueError (reported as -1) when
\* the text is empty or holds a character that is no digit.
PyIntOk(text) == text # <<>> /\ \A i \in 1..Len(text) : IsDigit(text[i])
PyInt(text) == IF PyIntOk(text) THEN IntOfDigits(text, 0) ELSE -1

(***************************** the vendor *********************************)
\* The vendor API is outside the driver: its inventory and the effect of each
\* call on it follow the vendor's object model (pools, nodes, pool members
\* joining a node to a pool at a port, virtual listeners referring to at most
\* one pool; deleting a listener deletes nothing else).
IdNames == <<"i1", "i2", "i3", "i4", "i5", "i6", "i7", "i8", "i9", "i10", "i11", "i12">>

EmptyVendor == [pools |-> <<>>, nodes |-> <<>>, members |-> <<>>, listeners |-> <<>>]

Ids(objects) == {objects[i].id : i \in 1..Len(objects)}

\* How the vendor answers a create call: it creates the object and reports
\* its id ("ok", "ok_extra": after an unrelated entry), or creates nothing
\* and reports no id ("fail", "fail_other": only an unrelated entry).
Shapes == {"ok", "ok_extra", "fail", "fail_other"}

\* The answers to the k calls of an orchestration: every call succeeds, or
\* one of them fails.
OneFailure(k) == {[i \in 1..k |-> IF i = f THEN "fail" ELSE "ok"] : f \in 0..k}

InfoFor(key, id, shape) ==
  CASE shape = "ok" -> <<[name |-> key, value |-> id]>>
    [] shape = "ok_extra" -> <<[name |-> "other", value |-> "x"], [name |-> key, value |-> id]>>
    [] shape = "fail_other" -> <<[name |-> "other", value |-> "x"]>>
    [] OTHER -> <<>>

Answer(v, nid, info, elements) ==
  [vendor |-> v, nextId |-> nid, response |-> [info |-> info, elements |-> elements]]

Refuse(v, nid, shape) ==
  Answer(v, nid, InfoFor("none", "none", IF shape = "ok_extra" THEN "fail_other"
                                           ELSE IF shape = "ok" THEN "fail" ELSE shape), <<>>)

\* The poolMember elements of one pool, in document order.
MemberElements(v, pool_id) ==
  LET NodeOf(nodeId) == CHOOSE i \in 1..Len(v.nodes) : v.nodes[i].id = nodeId
      Element(m) == [id |-> m.id,
                     node |-> <<v.nodes[NodeOf(m.nodeId)]>>,
                     state |-> "NORMAL",
                     port |-> m.port]
      OfPool == SelectSeq(v.members, LAMBDA m : m.poolId = pool_id)
  IN [i \in 1..Len(OfPool) |-> Element(OfPool[i])]

\* A virtualListener element; `code` is the state the vendor reports for it
\* (None: the element has no state child).  The pool child is present iff
\* the listener refers to a pool.
ListenerElement(l, code) ==
  [id |-> l.id, name |-> l.name, port |-> l.port,
   listenerIpAddress |-> "165.180.12.22", state |-> code,
   pool |-> l.poolId, networkDomainId |-> l.networkDomainId]

Vendor(v, nid, req, shape) ==
  LET created == shape \in {"ok", "ok_extra"} /\ nid <= MaxId
      id == IdNames[nid]
  IN
  CASE req.op = "createPool" ->
         IF created
         THEN Answer([v EXCEPT !.pools = Append(@, [id |-> id, name |-> req.name,
                                                     loadBalancerMethod |-> req.loadBalancerMethod])],
                     nid + 1, InfoFor("poolId", id, shape), <<>>)
         ELSE Refuse(v, nid, shape)
    [] req.op = "createNode" ->
         IF created
         THEN Answer([v EXCEPT !.nodes = Append(@, [id |-> id, name |-> req.name,
                                                     ipAddress |-> req.ipv4Address])],
                     nid + 1, InfoFor("nodeId", id, shape), <<>>)
         ELSE Refuse(v, nid, shape)
    [] req.op = "addPoolMember" ->
         IF created /\ req.poolId \in Ids(v.pools) /\ req.nodeId \in Ids(v.nodes)
         THEN Answer([v EXCEPT !.members = Append(@, [id |-> id, poolId |-> req.poolId,
                                                       nodeId |-> req.nodeId, port |-> req.port])],
                     nid + 1, InfoFor("poolMemberId", id, shape), <<>>)
         ELSE Refuse(v, nid, shape)
    [] req.op = "createVirtualListener" ->
         IF created
         THEN Answer([v EXCEPT !.listeners = Append(@, [id |-> id, name |-> req.name,
                                                         port |-> req.port,
                                                         poolId |-> IF "poolId" \in DOMAIN req
                                                                    THEN req.poolId ELSE None,
                                                         networkDomainId |-> req.networkDomainId])],
                     nid + 1, InfoFor("virtualListenerId", id, shape), <<>>)
         ELSE Refuse(v, nid, shape)
    [] req.op = "removePoolMember" ->
         Answer([v EXCEPT !.members = SelectSeq(@, LAMBDA m : m.id # req.id)], nid, <<>>, <<>>)
    [] req.op = "deleteVirtualListener" ->
         Answer([v EXCEPT !.listeners = SelectSeq(@, LAMBDA l : l.id # req.id)], nid, <<>>, <<>>)
    [] req.op = "deletePool" ->
         Answer([v EXCEPT !.pools = SelectSeq(@, LAMBDA p : p.id # req.id)], nid, <<>>, <<>>)
    [] req.op = "getPoolMembers" ->
         Answer(v, nid, <<>>, MemberElements(v, req.poolId))
    [] req.op = "getVirtualListeners" ->
         Answer(v, nid, <<>>, [i \in 1..Len(v.listeners) |-> ListenerElement(v.listeners[i], shape[i])])
    [] req.op = "getVirtualListener" ->
         Answer(v, nid, <<>>,
                LET found == SelectSeq(v.listeners, LAMBDA l : l.id = req.id)
                IN [i \in 1..Len(found) |-> ListenerElement(found[i], shape)])
    [] OTHER -> Answer(v, nid, <<>>, <<>>)

(**************************** the transport *******************************)
\* self.connection.request_with_orgId_api_2(path, method, data).object: the
\* call reaches the vendor, and the parsed response comes back.  A context is
\* the vendor's state together with the calls issued so far.
Context(v, nid) == [vendor |-> v, nextId |-> nid, calls |-> <<>>]

request_with_orgId_api_2(ctx, req, shape) ==
  LET a == Vendor(ctx.vendor, ctx.nextId, req, shape)
  IN [ctx |-> [vendor |-> a.vendor, nextId |-> a.nextId,
               calls |-> Append(ctx.calls, [req |-> req, response |-> a.response])],
      response |-> a.response]

(************************** response parsing ******************************)
\* for info in findall(response, 'info', TYPES_URN):
\*     if info.name == key: return info.value
\* return default
RECURSIVE InfoValue(_, _, _)
InfoValue(infos, key, default) ==
  IF infos = <<>> THEN default
  ELSE IF Head(infos).name = key THEN Head(infos).value
  ELSE InfoValue(Tail(infos), key, default)

(*************************** default arguments ****************************)
default_connection_limit == 25000
default_connection_rate_limit == 2000
default_slow_ramp_time == 30

(************************ extension operations ****************************)
ex_create_pool_member(ctx, pool_id, node_id, port, shape) ==
  IF ~Bound("ET") THEN Raise(ctx, "NameError")
  ELSE LET r == request_with_orgId_api_2(ctx,
                  [op |-> "addPoolMember", poolId |-> pool_id, nodeId |-> node_id, port |-> port],
                  shape)
       IN Return(r.ctx, InfoValue(r.response.info, "poolMemberId", False))

ex_create_node(ctx, network_domain_id, name, ip, ex_description, shape) ==
  IF ~Bound("ET") THEN Raise(ctx, "NameError")
  ELSE LET r == request_with_orgId_api_2(ctx,
                  [op |-> "createNode", networkDomainId |-> network_domain_id,
                   description |-> ex_description, name |-> name, ipv4Address |-> ip,
                   connectionLimit |-> default_connection_limit,
                   connectionRateLimit |-> default_connection_rate_limit],
                  shape)
       IN Return(r.ctx, InfoValue(r.response.info, "nodeId", None))

ex_create_pool(ctx, network_domain_id, name, balancer_method, ex_description, shape) ==
  IF ~Bound("ET") THEN Raise(ctx, "NameError")
  ELSE LET r == request_with_orgId_api_2(ctx,
                  [op |-> "createPool", networkDomainId |-> network_domain_id,
                   description |-> ex_description, name |-> name,
                   loadBalancerMethod |-> balancer_method,
                   serviceDownAction |-> "NONE", slowRampTime |-> default_slow_ramp_time],
                  shape)
       IN Return(r.ctx, InfoValue(r.response.info, "poolId", False))

ex_create_virtual_listener(ctx, network_domain_id, name, ex_description, port, shape) ==
  IF ~Bound("ET") THEN Raise(ctx, "NameError")
  ELSE LET r == request_with_orgId_api_2(ctx,
                  [op |-> "createVirtualListener", networkDomainId |-> network_domain_id,
                   description |-> ex_description, name |-> name, port |-> port,
                   type |-> "STANDARD",
                   connectionLimit |-> default_connection_limit,
                   connectionRateLimit |-> default_connection_rate_limit,
                   sourcePortPreservation |-> "PRESERVE"],
                  shape)
       IN Return(r.ctx, InfoValue(r.response.info, "poolId", False))

(****************************** decoding **********************************)
\* A mutant of _to_member: the member takes the id of its node.
_to_member_node_id(element) ==
  IF element.node = <<>> THEN [exc |-> "AttributeError", value |-> None]
  ELSE IF ~PyIntOk(element.port) THEN [exc |-> "ValueError", value |-> None]
  ELSE [exc |-> "none",
        value |-> [id |-> element.node[1].id, name |-> element.node[1].name,
                   status |-> element.state, ip_address |-> element.node[1].ipAddress,
                   port |-> PyInt(element.port)]]

\* DimensionDataPoolMember(id, name, status, ip_address, port); element.node
\* holds the node children found (find takes the first, or None: None.get raises).
_to_member(element) ==
  IF element.node = <<>> THEN [exc |-> "AttributeError", value |-> None]
  ELSE IF ~PyIntOk(element.port) THEN [exc |-> "ValueError", value |-> None]
  ELSE [exc |-> "none",
        value |-> [id |-> element.id, name |-> element.node[1].name,
                   status |-> element.state, ip_address |-> element.node[1].ipAddress,
                   port |-> PyInt(element.port)]]

\* The list comprehension of a decoder over the elements, in document order;
\* the first element that fails to decode raises.
RECURSIVE _to_members(_)
_to_members(elements) ==
  IF elements = <<>> THEN [exc |-> "none", value |-> <<>>]
  ELSE LET m == _to_member(Head(elements))
           rest == _to_members(Tail(elements))
       IN IF m.exc # "none" THEN m
          ELSE IF rest.exc # "none" THEN rest
          ELSE [exc |-> "none", value |-> <<m.value>> \o rest.value]

\* LoadBalancer(id, name, state, ip, port, driver, extra); element.find('pool')
\* is None when the listener has no pool child, and None.get raises.
_to_balancer(element) ==
  IF element.pool = None THEN [exc |-> "AttributeError", value |-> None]
  ELSE [exc |-> "none",
        value |-> [id |-> element.id, name |-> element.name,
                   state |-> DictGet(VALUE_TO_STATE_MAP, element.state, State.UNKNOWN),
                   ip |-> element.listenerIpAddress, port |-> element.port,
                   extra |-> [pool_id |-> element.pool,
                              network_domain_id |-> element.networkDomainId]]]

RECURSIVE _to_balancers(_)
_to_balancers(elements) ==
  IF elements = <<>> THEN [exc |-> "none", value |-> <<>>]
  ELSE LET b == _to_balancer(Head(elements))
           rest == _to_balancers(Tail(elements))
       IN IF b.exc # "none" THEN b
          ELSE IF rest.exc # "none" THEN rest
          ELSE [exc |-> "none", value |-> <<b.value>> \o rest.value]

ex_get_pool_members(ctx, pool_id) ==
  LET r == request_with_orgId_api_2(ctx, [op |-> "getPoolMembers", poolId |-> pool_id], "ok")
      d == _to_members(r.response.elements)
  IN [ctx |-> r.ctx, value |-> d.value, exc |-> d.exc]

(*************************** neutral operations ***************************)
\* for member in members: create a node, then attach it to the pool.  The
\* i-th member's two calls are answered as shapes[2i] and shapes[2i+1] say.
RECURSIVE create_balancer_members(_, _, _, _, _, _)
create_balancer_members(ctx, pool_id, members, port, shapes, i) ==
  IF i > Len(members) THEN Return(ctx, None)
  ELSE LET member == members[i]
           n == ex_create_node(ctx, None, member.name, member.ip, None, shapes[2 * i])
       IN IF n.exc # "none" THEN n
          ELSE LET pm == ex_create_pool_member(n.ctx, pool_id, n.value, port, shapes[2 * i + 1])
               IN IF pm.exc # "none" THEN pm
                  ELSE create_balancer_members(pm.ctx, pool_id, members, port, shapes, i + 1)

\* A mutant of create_balancer: when the listener step reports no id, the
\* pool is deleted again and the failure reported.
create_balancer_rollback(ctx, name, port, protocol, algorithm, members, shapes) ==
  IF ~Bound("_ALGORITHM_TO_VALUE_MAP") THEN Raise(ctx, "NameError")
  ELSE LET p == ex_create_pool(ctx, None, name, algorithm_to_code(algorithm), None, shapes[1])
       IN IF p.exc # "none" THEN p
          ELSE LET ms == create_balancer_members(p.ctx, p.value, members, port, shapes, 1)
               IN IF ms.exc # "none" THEN ms
                  ELSE LET l == ex_create_virtual_listener(ms.ctx, None, name, None, port,
                                                           shapes[2 * Len(members) + 2])
                       IN IF l.exc # "none" THEN l
                          ELSE IF l.value = False
                          THEN Return(request_with_orgId_api_2(l.ctx,
                                        [op |-> "deletePool", id |-> p.value], "ok").ctx, False)
                          ELSE Return(l.ctx, True)

create_balancer(ctx, name, port, protocol, algorithm, members, shapes) ==
  IF ~Bound("_ALGORITHM_TO_VALUE_MAP") THEN Raise(ctx, "NameError")
  ELSE LET p == ex_create_pool(ctx, None, name,
                               algorithm_to_code(algorithm), None, shapes[1])
       IN IF p.exc # "none" THEN p
          ELSE LET ms == create_balancer_members(p.ctx, p.value, members, port, shapes, 1)
               IN IF ms.exc # "none" THEN ms
                  ELSE LET l == ex_create_virtual_listener(ms.ctx, None, name, None, port,
                                                           shapes[2 * Len(members) + 2])
                       IN IF l.exc # "none" THEN l ELSE Return(l.ctx, True)

list_balancers(ctx, codes) ==
  LET r == request_with_orgId_api_2(ctx, [op |-> "getVirtualListeners"], codes)
      d == _to_balancers(r.response.elements)
  IN [ctx |-> r.ctx, value |-> d.value, exc |-> d.exc]

get_balancer(ctx, balancer_id, code) ==
  LET r == request_with_orgId_api_2(ctx, [op |-> "getVirtualListener", id |-> balancer_id], code)
      d == _to_balancer(r.response.elements[1])
  IN [ctx |-> r.ctx, value |-> d.value, exc |-> d.exc]

\* Member(id, ip, port, balancer, extra) for each pool member, in order.
balancer_list_members(ctx, balancer) ==
  LET pms == ex_get_pool_members(ctx, balancer.extra.pool_id)
  IN IF pms.exc # "none" THEN pms
     ELSE Return(pms.ctx,
                 [i \in 1..Len(pms.value) |->
                    [id |-> pms.value[i].id, ip |-> pms.value[i].ip_address,
                     port |-> pms.value[i].port, balancer |-> balancer, extra |-> None]])

balancer_attach_member(ctx, balancer, member, shapes) ==
  LET n == ex_create_node(ctx, balancer.extra.network_domain_id, member.name, member.ip,
                          member.description, shapes[1])
  IN IF n.exc # "none" THEN n
     ELSE IF ~Bound("false") THEN Raise(n.ctx, "NameError")
     ELSE IF n.value = False THEN Return(n.ctx, False)
     ELSE LET pm == ex_create_pool_member(n.ctx, balancer.extra.pool_id, n.value,
                                          member.port, shapes[2])
          IN IF pm.exc # "none" THEN pm ELSE Return(pm.ctx, True)

balancer_detach_member(ctx, balancer, member) ==
  IF ~Bound("ET") THEN Raise(ctx, "NameError")
  ELSE LET r == request_with_orgId_api_2(ctx, [op |-> "removePoolMember", id |-> member.id], "ok")
       IN Return(r.ctx, True)

destroy_balancer(ctx, balancer) ==
  IF ~Bound("ET") THEN Raise(ctx, "NameError")
  ELSE LET r == request_with_orgId_api_2(ctx, [op |-> "deleteVirtualListener", id |-> balancer.id], "ok")
       IN Return(r.ctx, True)

(******************************* inputs ***********************************)
Port80 == <<"8", "0">>
Port443 == <<"4", "4", "3">>
Port8080 == <<"8", "0", "8", "0">>

Member1 == [id |-> None, name |-> "web1", ip |-> "10.0.0.1", port |-> Port8080, description |-> None]
Member2 == [id |-> None, name |-> "web2", ip |-> "10.0.0.2", port |-> Port8080, description |-> "second"]

NewMembers == {Member1, Member2}

\* The member lists handed to create_balancer: the empty list, and lists of up
\* to MaxMembers members that alternate the two, starting with either.
MemberLists ==
  {<<>>} \cup {[i \in 1..n |-> IF (i + k) % 2 = 0 THEN Member1 ELSE Member2] :
                 n \in 1..MaxMembers, k \in 0..1}

\* The (algorithm, port) pairs handed to create_balancer: two algorithms of
\* the table and one outside it, on two ports.
BalancerInputs ==
  { [algorithm |-> Algorithm.ROUND_ROBIN, port |-> Port80],
    [algorithm |-> Algorithm.ROUND_ROBIN, port |-> Port443],
    [algorithm |-> Algorithm.PERSISTENT_IP, port |-> Port443],
    [algorithm |-> Algorithm.RANDOM, port |-> Port80] }

\* The vendor codes handed to the reverse lookup: those of the table and one
\* outside it.
CodeInputs == DOMAIN VALUE_TO_ALGORITHM_MAP \cup {"WEIGHTED"}

\* The state codes a vendor reports: those of the table, codes outside it,
\* and no state at all.
StateCodes == DOMAIN VALUE_TO_STATE_MAP \cup {"DELETED", "normal", None}

\* The codes a listing reports, one per listener.
ListedCodes == {"NORMAL", "FAILED_ADD", "DELETED"}

\* An inventory provisioned before the driver is used: a listener on a pool of
\* two members, and a second listener on a pool that shares a node with it.
SeededVendor ==
  [pools |-> <<[id |-> "p0", name |-> "web", loadBalancerMethod |-> "ROUND_ROBIN"],
               [id |-> "p1", name |-> "db", loadBalancerMethod |-> "LEAST_CONNECTIONS"]>>,
   nodes |-> <<[id |-> "n0", name |-> "a", ipAddress |-> "10.0.0.8"],
               [id |-> "n1", name |-> "b", ipAddress |-> "10.0.0.9"]>>,
   members |-> <<[id |-> "pm0", poolId |-> "p0", nodeId |-> "n1", port |-> Port80],
                 [id |-> "pm1", poolId |-> "p1", nodeId |-> "n0", port |-> Port443],
                 [id |-> "pm2", poolId |-> "p0", nodeId |-> "n0", port |-> Port8080]>>,
   listeners |-> <<[id |-> "vl0", name |-> "web", port |-> Port80, poolId |-> "p0",
                    networkDomainId |-> "nd0"],
                   [id |-> "vl1", name |-> "db", port |-> Port443, poolId |-> "p1",
                    networkDomainId |-> "nd0"]>>]

InitVendors == {EmptyVendor, SeededVendor}

\* The LoadBalancer objects a caller can hold: decoded from the listeners that
\* exist, or a handle whose listener and pool are gone.
StaleBalancer ==
  [id |-> "vl9", name |-> "gone", state |-> State.UNKNOWN, ip |-> "165.180.12.22",
   port |-> Port80, extra |-> [pool_id |-> "p9", network_domain_id |-> "nd0"]]

Balancers(v) ==
  {_to_balancer(ListenerElement(v.listeners[i], "NORMAL")).value :
     i \in {j \in 1..Len(v.listeners) : v.listeners[j].poolId # None}} \cup {StaleBalancer}

\* The Member objects a caller can hold for a detach: those listed for a balancer.
ListedMembers(v, balancer) ==
  LET ms == balancer_list_members(Context(v, 1), balancer).value
  IN {ms[i] : i \in 1..Len(ms)}

(******************************* actions **********************************)
Finish(op, args, out) ==
  /\ ops < MaxOps
  /\ ops' = ops + 1
  /\ vendor' = out.ctx.vendor
  /\ nextId' = out.ctx.nextId
  /\ last' = [op |-> op, args |-> args, calls |-> out.ctx.calls,
              result |-> out.value, exc |-> out.exc]
  /\ UNCHANGED patched

Here == Context(vendor, nextId)

CreateBalancer ==
  \E input \in BalancerInputs, members \in MemberLists :
    \E shapes \in OneFailure(2 * Len(members) + 2) :
      Finish("create_balancer",
             [name |-> "web", port |-> input.port, protocol |-> "http",
              algorithm |-> input.algorithm, members |-> members],
             create_balancer(Here, "web", input.port, "http", input.algorithm, members, shapes))

ListBalancers ==
  \E codes \in [1..Len(vendor.listeners) -> ListedCodes] :
    Finish("list_balancers", [none |-> None], list_balancers(Here, codes))

GetBalancer ==
  \E id \in Ids(vendor.listeners), code \in StateCodes :
    Finish("get_balancer", [balancer_id |-> id], get_balancer(Here, id, code))

BalancerListMembers ==
  \E balancer \in Balancers(vendor) :
    Finish("balancer_list_members", [balancer |-> balancer],
           balancer_list_members(Here, balancer))

BalancerAttachMember ==
  \E balancer \in Balancers(vendor), member \in NewMembers, shapes \in [1..2 -> {"ok", "fail"}] :
    Finish("balancer_attach_member", [balancer |-> balancer, member |-> member],
           balancer_attach_member(Here, balancer, member, shapes))

BalancerDetachMember ==
  \E balancer \in Balancers(vendor) :
    \E member \in ListedMembers(vendor, balancer) :
      Finish("balancer_detach_member", [balancer |-> balancer, member |-> member],
             balancer_detach_member(Here, balancer, member))

DestroyBalancer ==
  \E balancer \in Balancers(vendor) :
    Finish("destroy_balancer", [balancer |-> balancer], destroy_balancer(Here, balancer))

ExCreateNode ==
  \E member \in NewMembers, shape \in Shapes :
    Finish("ex_create_node", [name |-> member.name, ip |-> member.ip],
           ex_create_node(Here, "nd0", member.name, member.ip, None, shape))

ExCreatePool ==
  \E balancer_method \in {"ROUND_ROBIN", "LEAST_CONNECTIONS"}, shape \in Shapes :
    Finish("ex_create_pool", [balancer_method |-> balancer_method],
           ex_create_pool(Here, "nd0", "web", balancer_method, None, shape))

ExCreatePoolMember ==
  \E pool_id \in Ids(vendor.pools) \cup {"p9"}, node_id \in Ids(vendor.nodes),
     port \in {Port443}, shape \in Shapes :
    Finish("ex_create_pool_member", [pool_id |-> pool_id, node_id |-> node_id, port |-> port],
           ex_create_pool_member(Here, pool_id, node_id, port, shape))

AlgorithmToCode ==
  \E algorithm \in Algorithms :
    Finish("algorithm_to_code", [algorithm |-> algorithm],
           Return(Here, algorithm_to_code(algorithm)))

CodeToAlgorithm ==
  \E code \in CodeInputs :
    Finish("code_to_algorithm", [code |-> code], Return(Here, code_to_algorithm(code)))

Next ==
  \/ CreateBalancer
  \/ ListBalancers
  \/ GetBalancer
  \/ BalancerListMembers
  \/ BalancerAttachMember
  \/ BalancerDetachMember
  \/ DestroyBalancer
  \/ ExCreateNode
  \/ ExCreatePool
  \/ ExCreatePoolMember
  \/ AlgorithmToCode
  \/ CodeToAlgorithm

NoOperation == [op |-> "none", args |-> [none |-> None], calls |-> <<>>, result |-> None, exc |-> "none"]

InitInventory ==
  /\ vendor \in InitVendors
  /\ nextId = 1
  /\ last = NoOperation
  /\ ops = 0

\* The file as written.
Init == InitInventory /\ patched = {}

\* The file with its three free names bound.
InitBound == InitInventory /\ patched = FreeNames

InitAny == InitInventory /\ patched \in {{}, FreeNames}

Spec == Init /\ [][Next]_vars
SpecBound == InitBound /\ [][Next]_vars
SpecAny == InitAny /\ [][Next]_vars

(*************************** reading the record ***************************)
\* The info entry under which the vendor reports the id a call created.
IdKey(op) ==
  CASE op = "createPool" -> "poolId"
    [] op = "createNode" -> "nodeId"
    [] op = "addPoolMember" -> "poolMemberId"
    [] op = "createVirtualListener" -> "virtualListenerId"
    [] OTHER -> "none"

\* Python truthiness of the values the driver returns (ids are non-empty strings).
Falsy(v) == v \in {None, False}

HasEntry(info, key) == \E i \in 1..Len(info) : info[i].name = key

FirstEntry(info, key) ==
  info[CHOOSE i \in 1..Len(info) :
         info[i].name = key /\ \A j \in 1..(i - 1) : info[j].name # key].value

\* The vendor created what the call asked for, and said so.
StepSucceeded(call) == HasEntry(call.response.info, IdKey(call.req.op))

ReportedId(call) == FirstEntry(call.response.info, IdKey(call.req.op))

CallsOf(op) == {i \in 1..Len(last.calls) : last.calls[i].req.op = op}

IsPrefix(s, t) == Len(s) <= Len(t) /\ SubSeq(t, 1, Len(s)) = s

(******************************** claims **********************************)
\* The vendor code of each algorithm of the forward map.
ExpectedCode(a) ==
  CASE a = Algorithm.ROUND_ROBIN -> "ROUND_ROBIN"
    [] a = Algorithm.LEAST_CONNECTIONS -> "LEAST_CONNECTIONS"
    [] a = Algorithm.SHORTEST_RESPONSE -> "SHORTEST_RESPONSE"
    [] a = Algorithm.PERSISTENT_IP -> "PERSISTENT_IP"
    [] OTHER -> None

ForwardAlgorithms ==
  {Algorithm.ROUND_ROBIN, Algorithm.LEAST_CONNECTIONS, Algorithm.SHORTEST_RESPONSE,
   Algorithm.PERSISTENT_IP}

ExpectedCreateOp(i, n) ==
  IF i = 1 THEN "createPool"
  ELSE IF i = 2 * n + 2 THEN "createVirtualListener"
  ELSE IF i % 2 = 0 THEN "createNode"
  ELSE "addPoolMember"

\* C1: a create_balancer over n members in which every vendor call succeeds
\* issues exactly createPool (carrying the vendor code of the algorithm), then
\* per member in list order createNode and addPoolMember, then
\* createVirtualListener: 2n + 2 calls.
C1_CreateBalancerCallSequence ==
  (last.op = "create_balancer" /\ \A i \in 1..Len(last.calls) : StepSucceeded(last.calls[i]))
  => LET n == Len(last.args.members)
         calls == last.calls
     IN /\ Len(calls) = 2 * n + 2
        /\ \A i \in 1..Len(calls) : calls[i].req.op = ExpectedCreateOp(i, n)
        /\ last.args.algorithm \in ForwardAlgorithms
             => calls[1].req.loadBalancerMethod = ExpectedCode(last.args.algorithm)
        /\ \A k \in 1..n : /\ calls[2 * k].req.ipv4Address = last.args.members[k].ip
                           /\ calls[2 * k].req.name = last.args.members[k].name

ExCreateKey(op) ==
  CASE op = "ex_create_node" -> "nodeId"
    [] op = "ex_create_pool" -> "poolId"
    [] op = "ex_create_pool_member" -> "poolMemberId"

\* C4: ex_create_node, ex_create_pool and ex_create_pool_member return the
\* value of the response's entry named nodeId, poolId, poolMemberId when there
\* is one, and otherwise a falsy result; they raise nothing.
C4_CreateReturnsIdOrFalsy ==
  last.op \in {"ex_create_node", "ex_create_pool", "ex_create_pool_member"}
  => /\ last.exc = "none"
     /\ Len(last.calls) = 1
     /\ LET info == last.calls[1].response.info
            key == ExCreateKey(last.op)
        IN IF HasEntry(info, key) THEN last.result = FirstEntry(info, key)
           ELSE Falsy(last.result)

\* C5: destroy_balancer(lb) issues exactly one vendor call, deleteVirtualListener
\* with id lb.id, and the vendor's pools, nodes and pool members are as before.
C5_DestroyOnlyDeletesListener ==
  [][last'.op = "destroy_balancer"
       => /\ Len(last'.calls) = 1
          /\ last'.calls[1].req = [op |-> "deleteVirtualListener",
                                   id |-> last'.args.balancer.id]
          /\ vendor'.pools = vendor.pools
          /\ vendor'.nodes = vendor.nodes
          /\ vendor'.members = vendor.members]_vars

DeletingOps == {"deletePool", "deleteNode", "removePoolMember", "deleteVirtualListener"}

PortNumber(text) ==
  CASE text = Port80 -> 80
    [] text = Port443 -> 443
    [] text = Port8080 -> 8080

\* C7: balancer_list_members(lb) issues one pool-member lookup for
\* lb.extra['pool_id'] and returns, in document order, one Member per
\* poolMember element: id the pool member's id, ip its node's ipAddress, port
\* its port, balancer lb.
C7_ListMembersDecodesPoolMembers ==
  last.op = "balancer_list_members"
  => /\ last.exc = "none"
     /\ Len(last.calls) = 1
     /\ last.calls[1].req = [op |-> "getPoolMembers",
                             poolId |-> last.args.balancer.extra.pool_id]
     /\ LET elements == last.calls[1].response.elements
        IN /\ Len(last.result) = Len(elements)
           /\ \A i \in 1..Len(elements) :
                /\ last.result[i].id = elements[i].id
                /\ last.result[i].ip = elements[i].node[1].ipAddress
                /\ last.result[i].port = PortNumber(elements[i].port)
                /\ last.result[i].balancer = last.args.balancer

\* Two members listed for the pool of vl0, the first one pm0 on node n1.
C7_Witness ==
  /\ last.op = "balancer_list_members"
  /\ last.args.balancer.id = "vl0"
  /\ Len(last.result) = 2
  /\ last.result[1].id = "pm0"
  /\ last.result[1].ip = "10.0.0.9"
  /\ last.result[1].port = 80
  /\ last.result[2].id = "pm2"

\* The neutral state of each vendor state code.
ExpectedState(code) ==
  CASE code = "NORMAL" -> State.RUNNING
    [] code \in {"PENDING_ADD", "PENDING_CHANGE", "PENDING_DELETE"} -> State.PENDING
    [] code \in {"FAILED_ADD", "FAILED_CHANGE", "FAILED_DELETE", "REQUIRES_SUPPORT"} -> State.ERROR
    [] OTHER -> State.UNKNOWN

\* C8: the LoadBalancer decoded from a virtualListener element has the state
\* its code maps to, UNKNOWN for a code outside the table and for no state at
\* all; no state code makes the decoding fail.
C8_StateDecoding ==
  /\ last.op = "get_balancer"
       => LET element == last.calls[1].response.elements[1]
          IN element.pool # None
               => last.exc = "none" /\ last.result.state = ExpectedState(element.state)
  /\ last.op = "list_balancers"
       => LET elements == last.calls[1].response.elements
          IN (\A i \in 1..Len(elements) : elements[i].pool # None)
               => /\ last.exc = "none"
                  /\ Len(last.result) = Len(elements)
                  /\ \A i \in 1..Len(elements) :
                       last.result[i].state = ExpectedState(elements[i].state)

\* A listener that reports PENDING_DELETE, decoded as PENDING.
C8_Witness ==
  /\ last.op = "get_balancer"
  /\ last.exc = "none"
  /\ last.calls[1].response.elements[1].state = "PENDING_DELETE"
  /\ last.result.state = State.PENDING

\* C9: the two algorithm tables are inverses of each other: translating an
\* algorithm of the forward map to its code and back gives the algorithm,
\* translating a code of the reverse map to its algorithm and back gives the
\* code, and the tables have the same number of entries.
C9_AlgorithmTablesAreInverses ==
  /\ DOMAIN ALGORITHM_TO_VALUE_MAP = ForwardAlgorithms
  /\ Cardinality(DOMAIN ALGORITHM_TO_VALUE_MAP) = Cardinality(DOMAIN VALUE_TO_ALGORITHM_MAP)
  /\ (last.op = "algorithm_to_code" /\ last.args.algorithm \in ForwardAlgorithms)
       => /\ last.result = ExpectedCode(last.args.algorithm)
          /\ code_to_algorithm(last.result) = last.args.algorithm
  /\ (last.op = "code_to_algorithm" /\ last.args.code \in DOMAIN VALUE_TO_ALGORITHM_MAP)
       => algorithm_to_code(last.result) = last.args.code

\* PERSISTENT_IP translated to its code.
C9_Witness ==
  /\ last.op = "algorithm_to_code"
  /\ last.args.algorithm = Algorithm.PERSISTENT_IP
  /\ last.result = "PERSISTENT_IP"

====
